---- MODULE Spec2Model ----
(***************************************************************************)
(* Model of the springboard backtester: the Poloniex trade aggregator      *)
(* (poloniex.get_trades), the replay cursor (data.PoloniexDataHandler) and *)
(* the ledger and order sizing of portfolio.NaivePortfolio.                *)
(*                                                                         *)
(* Money and prices are integers (the code uses Python floats); a signal's *)
(* strength is counted in thousandths, so floor(100 * strength) is         *)
(* (100 * s) \div 1000.  Time is counted in half hours.                    *)
(***************************************************************************)
EXTENDS Integers, Sequences, FiniteSets, Bags

\* ---------------------------------------------------------------- bounds
MaxBars == 2        \* bars per market handed to the data handler
MaxSteps == 2       \* calls of update_market_data
MaxFills == 2       \* calls of update_fill
MaxSignals == 1     \* calls of update_signal
NumTicks == 3       \* half hours in the window of get_trades
MaxPages == 3       \* page requests of one get_trades call
MaxLookback == 2    \* the N of get_latest_market_data
MaxFlipSignals == 3 \* signals of a run whose orders are all filled

\* ------------------------------------------------------- program constants
initial_capital == 100000
PageSize == 50000   \* rows of a full page of returnTradeHistory
TicksPerHour == 2   \* the hour of to_period('1H'), in half hours

\* ----------------------------------------------------------- input domains
markets == <<"X", "Y">>
MarketSet == {markets[i] : i \in 1..Len(markets)}
\* <<quantity, price, commission>> of the fills the execution handler reports
FillTerms == {<<50, 10, 0>>, <<100, 20, 1>>}
DirectionSet == {"BUY", "SELL", "HOLD"}
SignalTypeSet == {"LONG", "SHORT", "EXIT"}
StrengthSet == {505, 1000}          \* thousandths: 0.505 and 1.0

None == [type |-> "NONE"]

\* The rows get_trades hands to the data handler: row i of a market is its bar
\* of hour bucket i (ascending); consecutive bars of a market, and the bars of
\* the two markets in one bucket, have different mean rates.
MarketIndex(m) == CHOOSE i \in 1..Len(markets) : markets[i] = m

BarMean(m, i) == IF (i + MarketIndex(m)) % 2 = 0 THEN 10 ELSE 20

Bar(m, i) == [type |-> "BAR", market |-> m, name |-> i, mean |-> BarMean(m, i)]

BarRows(m, n) == [i \in 1..n |-> Bar(m, i)]

VARIABLES
  market_data,         \* market -> sequence of bars (get_trades result)
  market_snapshots,    \* market -> number of rows the iterator has yielded
  latest_market_data,  \* market -> sequence of revealed bars
  continue_backtest,
  events,              \* the event queue
  current_positions,   \* market -> signed quantity
  current_holdings,    \* [mkts, cash, commission, total]
  all_positions,       \* positions history
  all_holdings,        \* holdings history
  fills,               \* history: the bag of events handed to update_fill
  nSignals,            \* history: calls of update_signal
  lastSignal,          \* history: the latest update_signal call
  nAdvance             \* history: calls of update_market_data

VARIABLES
  trades,              \* the feed: tick -> [n, rate], n trades at that rate
  page_end,            \* the local end of get_trades
  trades_df,           \* the frame of hourly rows accumulated so far
  pc,                  \* "idle", "loop", "done" or the exception raised
  nPages,              \* history: non-empty pages fetched
  fed                  \* history: hour -> rate -> rows of all pages so far

aggVars == <<trades, page_end, trades_df, pc, nPages, fed>>

vars == <<market_data, market_snapshots, latest_market_data, continue_backtest,
          events, current_positions, current_holdings, all_positions,
          all_holdings, fills, nSignals, lastSignal,
          nAdvance, trades, page_end, trades_df, pc, nPages, fed>>

dataVars == <<market_data, market_snapshots, latest_market_data,
              continue_backtest>>
ledgerVars == <<current_positions, current_holdings>>
historyVars == <<all_positions, all_holdings>>
signalLog == <<nSignals, lastSignal>>

RECURSIVE SumOver(_, _)
\* Sum of the weights w[x] (a function on S) over the finite set S.
SumOver(S, w) ==
  IF S = {} THEN 0
  ELSE LET x == CHOOSE y \in S : TRUE IN w[x] + SumOver(S \ {x}, w)

Abs(n) == IF n < 0 THEN -n ELSE n

\* ----------------------------------------------------------- poloniex.py
\* Statistics are exact fractions [n, d] in lowest terms (floats in the code).
RECURSIVE GCD(_, _)
GCD(a, b) == IF b = 0 THEN a ELSE GCD(b, a % b)

Rat(n, d) == LET g == GCD(Abs(n), d) IN [n |-> n \div g, d |-> d \div g]

RatTimes(a, k) == LET g == GCD(k, a.d) IN Rat(a.n * (k \div g), a.d \div g)

RatPlus(a, b) == Rat(a.n * b.d + b.n * a.d, a.d * b.d)

RatOver(a, k) == LET g == GCD(Abs(a.n), k) IN Rat(a.n \div g, a.d * (k \div g))

Ticks == 0..(NumTicks - 1)
RateSet == {1, 3}
CountSet == {1, PageSize \div 2, PageSize - 1, PageSize}
TradeRuns == {[n |-> 0, rate |-> 1]} \cup [n : CountSet, rate : RateSet]
Hour(t) == t \div TicksPerHour
Hours == {Hour(t) : t \in Ticks}
NoTrades == [r \in RateSet |-> 0]
currency_pair == markets[1]

\* int(time.mktime(dt.timetuple())): whole seconds, which a half-hour tick
\* already is; the host clock is taken to run on the feed's time zone (UTC).
unix_time(dt) == dt

\* The feed: the newest PageSize trades with start <= tick <= end, as the
\* number of rows of each tick.
returnTradeHistory(tr, start, end) ==
  [t \in Ticks |->
     IF t < start \/ t > end THEN 0
     ELSE LET window == {u \in Ticks : t < u /\ u <= end}
              newer == SumOver(window, [u \in window |-> tr[u].n])
              room == IF newer >= PageSize THEN 0 ELSE PageSize - newer
          IN IF tr[t].n < room THEN tr[t].n ELSE room]

\* The rates of the page's rows of hour h, rate -> number of rows.
RatesOfHour(tr, page, h) ==
  [r \in RateSet |->
     LET ts == {t \in Ticks : Hour(t) = h /\ tr[t].rate = r}
     IN SumOver(ts, [t \in ts |-> page[t]])]

Size(ms) == SumOver(DOMAIN ms, ms)

\* Element i (from 0) of the rates in ascending order.
ValueAt(ms, i) ==
  CHOOSE r \in DOMAIN ms :
    LET below == {q \in DOMAIN ms : q < r}
    IN /\ ms[r] > 0
       /\ SumOver(below, [q \in below |-> ms[q]]) <= i
       /\ SumOver(below, [q \in below |-> ms[q]]) + ms[r] > i

\* The k-th quartile, interpolated linearly between the two nearest ranks.
Quantile(ms, k) ==
  LET pos4 == (Size(ms) - 1) * k
      lo == pos4 \div 4
      hi == IF lo + 1 < Size(ms) THEN lo + 1 ELSE lo
  IN Rat(4 * ValueAt(ms, lo) + (pos4 % 4) * (ValueAt(ms, hi) - ValueAt(ms, lo)), 4)

\* One row of groupby('hour').describe().unstack(): the statistics of the rate
\* column (std left out), with the count shared by all columns.
describe(h, ms) ==
  [hour |-> h,
   count |-> Size(ms),
   mean |-> Rat(SumOver(DOMAIN ms, [r \in DOMAIN ms |-> r * ms[r]]), Size(ms)),
   min |-> Rat(ValueAt(ms, 0), 1),
   p25 |-> Quantile(ms, 1),
   p50 |-> Quantile(ms, 2),
   p75 |-> Quantile(ms, 3),
   max |-> Rat(ValueAt(ms, Size(ms) - 1), 1)]

\* hour -> row, for the hours the page has rows of.
hourly_stats(tr, page) ==
  LET hs == {Hour(t) : t \in {u \in Ticks : page[u] > 0}}
  IN [h \in hs |-> describe(h, RatesOfHour(tr, page, h))]

MinOf(S) == CHOOSE x \in S : \A y \in S : x <= y
MaxOf(S) == CHOOSE x \in S : \A y \in S : x >= y

IndexOf(df) == {df[i].hour : i \in DOMAIN df}

\* Variant: the two rows are averaged without their counts.
merge_rows_unweighted(row1, row2) ==
  LET stat(a, b) == RatOver(RatPlus(a, b), 2)
  IN [hour |-> row1.hour,
      count |-> row1.count + row2.count,
      mean |-> stat(row1.mean, row2.mean),
      min |-> stat(row1.min, row2.min),
      p25 |-> stat(row1.p25, row2.p25),
      p50 |-> stat(row1.p50, row2.p50),
      p75 |-> stat(row1.p75, row2.p75),
      max |-> stat(row1.max, row2.max)]

\* (row1 * count1 + row2 * count2) / trade_count on every statistic, and the
\* count set to trade_count.
merge_rows(row1, row2) ==
  LET trade_count == row1.count + row2.count
      stat(a, b) == RatOver(RatPlus(RatTimes(a, row1.count),
                                    RatTimes(b, row2.count)), trade_count)
  IN [hour |-> row1.hour,
      count |-> trade_count,
      mean |-> stat(row1.mean, row2.mean),
      min |-> stat(row1.min, row2.min),
      p25 |-> stat(row1.p25, row2.p25),
      p50 |-> stat(row1.p50, row2.p50),
      p75 |-> stat(row1.p75, row2.p75),
      max |-> stat(row1.max, row2.max)]

RECURSIVE RowsAscending(_, _)
\* The rows of stats for the hours hs, in ascending order of the hour.
RowsAscending(stats, hs) ==
  IF hs = {} THEN <<>>
  ELSE <<stats[MinOf(hs)]>> \o RowsAscending(stats, hs \ {MinOf(hs)})

\* Variant: the overlapping hour's accumulated row is replaced by the page's row.
accumulate_replace(df, stats) ==
  IF /\ Len(df) # 0
     /\ MinOf(IndexOf(df)) = MaxOf(DOMAIN stats)
  THEN LET key == MinOf(IndexOf(df))
           merged == [i \in DOMAIN df |->
                        IF df[i].hour = key THEN stats[key] ELSE df[i]]
       IN merged \o RowsAscending(stats, DOMAIN stats \ {key})
  ELSE df \o RowsAscending(stats, DOMAIN stats)

\* Variant: the merged hour is not dropped from the page's rows.
accumulate_keep_overlap(df, stats) ==
  IF /\ Len(df) # 0
     /\ MinOf(IndexOf(df)) = MaxOf(DOMAIN stats)
  THEN LET key == MinOf(IndexOf(df))
           merged == [i \in DOMAIN df |->
                        IF df[i].hour = key THEN merge_rows(df[i], stats[key])
                        ELSE df[i]]
       IN merged \o RowsAscending(stats, DOMAIN stats)
  ELSE df \o RowsAscending(stats, DOMAIN stats)

\* Lines 39-54: the overlap with the oldest accumulated hour is merged into
\* the frame and dropped from the page's rows, and the rest is appended.
accumulate(df, stats) ==
  IF /\ Len(df) # 0
     /\ MinOf(IndexOf(df)) = MaxOf(DOMAIN stats)
  THEN LET key == MinOf(IndexOf(df))
           merged == [i \in DOMAIN df |->
                        IF df[i].hour = key THEN merge_rows(df[i], stats[key])
                        ELSE df[i]]
       IN merged \o RowsAscending(stats, DOMAIN stats \ {key})
  ELSE df \o RowsAscending(stats, DOMAIN stats)

TotalCount(df) == SumOver(DOMAIN df, [i \in DOMAIN df |-> df[i].count])

need_to_fetch(t) == Len(t) = 0 \/ TotalCount(t) % PageSize = 0

RECURSIVE sort_index(_)
sort_index(df) ==
  IF Len(df) = 0 THEN <<>>
  ELSE LET i == CHOOSE j \in DOMAIN df :
                  /\ \A k \in DOMAIN df : df[j].hour <= df[k].hour
                  /\ \A k \in 1..(j - 1) : df[k].hour # df[j].hour
       IN <<df[i]>> \o sort_index([k \in 1..(Len(df) - 1) |->
                                     IF k < i THEN df[k] ELSE df[k + 1]])

\* Lines 58-62 after the loop: an empty frame has no tradeID column.
get_trades_return ==
  IF Len(trades_df) = 0
  THEN /\ pc' = "AttributeError"
       /\ UNCHANGED trades_df
  ELSE /\ pc' = "done"
       /\ trades_df' = [i \in DOMAIN trades_df |->
                          [hour |-> sort_index(trades_df)[i].hour,
                           market |-> currency_pair,
                           count |-> sort_index(trades_df)[i].count,
                           mean |-> sort_index(trades_df)[i].mean,
                           min |-> sort_index(trades_df)[i].min,
                           p25 |-> sort_index(trades_df)[i].p25,
                           p50 |-> sort_index(trades_df)[i].p50,
                           p75 |-> sort_index(trades_df)[i].p75,
                           max |-> sort_index(trades_df)[i].max]]

\* One pass of the while loop that gets a non-empty page.
get_trades_page ==
  /\ pc = "loop"
  /\ need_to_fetch(trades_df)
  /\ nPages < MaxPages
  /\ LET new_trades == returnTradeHistory(trades, unix_time(0), unix_time(page_end))
         stats == hourly_stats(trades, new_trades)
     IN /\ \E t \in Ticks : new_trades[t] > 0
        /\ page_end' = MinOf({t \in Ticks : new_trades[t] > 0})
        /\ trades_df' = accumulate(trades_df, stats)
        /\ fed' = [h \in Hours |->
                     [r \in RateSet |->
                        fed[h][r] + RatesOfHour(trades, new_trades, h)[r]]]
  /\ nPages' = nPages + 1
  /\ UNCHANGED <<trades, pc>>

\* The pass that gets an empty page: break, then the lines after the loop.
get_trades_break ==
  /\ pc = "loop"
  /\ need_to_fetch(trades_df)
  /\ \A t \in Ticks : returnTradeHistory(trades, unix_time(0), unix_time(page_end))[t] = 0
  /\ get_trades_return
  /\ UNCHANGED <<trades, page_end, nPages, fed>>

\* The loop condition fails: the lines after the loop.
get_trades_end ==
  /\ pc = "loop"
  /\ ~need_to_fetch(trades_df)
  /\ get_trades_return
  /\ UNCHANGED <<trades, page_end, nPages, fed>>

\* ------------------------------------------------------------- data.py
\* snapshot_list[-N:] and then element 0 of the slice
get_latest_market_data(lmd, market, N) ==
  IF market \notin DOMAIN lmd THEN None
  ELSE LET snapshot_list == lmd[market]
           from == IF Len(snapshot_list) > N THEN Len(snapshot_list) - N + 1 ELSE 1
           snapshot == SubSeq(snapshot_list, from, Len(snapshot_list))
       IN IF Len(snapshot) > 0 THEN snapshot[1] ELSE None

\* Variant: a market that yields a row sets the flag back.
RECURSIVE advance_markets_reset(_, _, _)
advance_markets_reset(md, st, i) ==
  IF i > Len(markets) THEN st
  ELSE LET m == markets[i]
           exhausted == st.it[m] >= Len(md[m])
           st2 == IF exhausted
                  THEN [st EXCEPT !.cont = FALSE]
                  ELSE [st EXCEPT !.it[m] = @ + 1,
                                  !.lmd[m] = Append(@, md[m][st.it[m] + 1]),
                                  !.cont = TRUE]
       IN advance_markets_reset(md, st2, i + 1)

\* Variant: the loop over the markets ends at the first exhausted market.
RECURSIVE advance_markets_abort(_, _, _)
advance_markets_abort(md, st, i) ==
  IF i > Len(markets) THEN st
  ELSE LET m == markets[i]
           exhausted == st.it[m] >= Len(md[m])
       IN IF exhausted THEN [st EXCEPT !.cont = FALSE]
          ELSE advance_markets_abort(
                 md, [st EXCEPT !.it[m] = @ + 1,
                                !.lmd[m] = Append(@, md[m][st.it[m] + 1])],
                 i + 1)

\* Variant: the row appended is the market's last row.
RECURSIVE advance_markets_last_row(_, _, _)
advance_markets_last_row(md, st, i) ==
  IF i > Len(markets) THEN st
  ELSE LET m == markets[i]
           exhausted == st.it[m] >= Len(md[m])
           st2 == IF exhausted
                  THEN [st EXCEPT !.cont = FALSE]
                  ELSE [st EXCEPT !.it[m] = @ + 1,
                                  !.lmd[m] = Append(@, md[m][Len(md[m])])]
       IN advance_markets_last_row(md, st2, i + 1)

\* One pass of the for loop of update_market_data over markets[i..]:
\* st = [it, lmd, cont].
RECURSIVE advance_markets(_, _, _)
advance_markets(md, st, i) ==
  IF i > Len(markets) THEN st
  ELSE LET m == markets[i]
           exhausted == st.it[m] >= Len(md[m])
           st2 == IF exhausted
                  THEN [st EXCEPT !.cont = FALSE]
                  ELSE [st EXCEPT !.it[m] = @ + 1,
                                  !.lmd[m] = Append(@, md[m][st.it[m] + 1])]
       IN advance_markets(md, st2, i + 1)

update_market_data ==
  /\ nAdvance < MaxSteps
  /\ LET st == advance_markets(market_data,
                               [it |-> market_snapshots,
                                lmd |-> latest_market_data,
                                cont |-> continue_backtest], 1)
     IN /\ market_snapshots' = st.it
        /\ latest_market_data' = st.lmd
        /\ continue_backtest' = st.cont
  /\ events' = Append(events, [type |-> "MARKET"])
  /\ nAdvance' = nAdvance + 1
  /\ UNCHANGED <<market_data, ledgerVars, historyVars, fills, signalLog>>

\* ---------------------------------------------------------- portfolio.py
construct_all_positions(start_date) ==
  <<[pos |-> [m \in MarketSet |-> 0], datetime |-> <<start_date>>]>>

construct_current_holdings ==
  [mkts |-> [m \in MarketSet |-> 0], cash |-> initial_capital,
   commission |-> 0, total |-> initial_capital]

construct_all_holdings(start_date) ==
  <<[mkts |-> [m \in MarketSet |-> 0], datetime |-> <<start_date>>,
     cash |-> initial_capital, commission |-> 0, total |-> initial_capital]>>

\* Variant: the market value replaces the running total instead of adding to it.
RECURSIVE mark_markets_last_wins(_, _, _, _)
mark_markets_last_wins(lmd, cp, acc, i) ==
  IF i > Len(markets) THEN acc
  ELSE LET market == markets[i]
           snapshot == get_latest_market_data(lmd, market, 1)
           market_value == cp[market] * snapshot.mean
           acc2 == IF snapshot # None
                   THEN [positions |->
                           [pos |-> [m \in DOMAIN acc.positions.pos \cup {market} |->
                                       IF m = market THEN cp[market]
                                       ELSE acc.positions.pos[m]],
                            datetime |-> <<snapshot.name>>],
                         holdings |->
                           [acc.holdings EXCEPT !.datetime = <<snapshot.name>>,
                                                !.total = acc.holdings.cash + market_value]]
                   ELSE acc
       IN mark_markets_last_wins(lmd, cp, acc2, i + 1)

\* One pass of the for loop of update_timeindex over markets[i..]:
\* acc = [positions, holdings], the two rows being built.
RECURSIVE mark_markets(_, _, _, _)
mark_markets(lmd, cp, acc, i) ==
  IF i > Len(markets) THEN acc
  ELSE LET market == markets[i]
           snapshot == get_latest_market_data(lmd, market, 1)
           market_value == cp[market] * snapshot.mean
           acc2 == IF snapshot # None
                   THEN [positions |->
                           [pos |-> [m \in DOMAIN acc.positions.pos \cup {market} |->
                                       IF m = market THEN cp[market]
                                       ELSE acc.positions.pos[m]],
                            datetime |-> <<snapshot.name>>],
                         holdings |->
                           [acc.holdings EXCEPT !.datetime = <<snapshot.name>>,
                                                !.total = @ + market_value]]
                   ELSE acc
       IN mark_markets(lmd, cp, acc2, i + 1)

\* The two rows update_timeindex appends.
timeindex_rows(lmd, cp, ch) ==
  mark_markets(lmd, cp,
               [positions |-> [pos |-> <<>>, datetime |-> <<>>],
                holdings |-> [mkts |-> <<>>, datetime |-> <<>>,
                              cash |-> ch.cash, commission |-> ch.commission,
                              total |-> ch.cash]], 1)

\* Variant: the two appends moved into the loop over the markets.
RECURSIVE append_per_market(_, _, _)
append_per_market(rows, row, i) ==
  IF i > Len(markets) THEN rows
  ELSE append_per_market(
         IF get_latest_market_data(latest_market_data, markets[i], 1) # None
         THEN Append(rows, row) ELSE rows, row, i + 1)

update_timeindex_append_in_loop(event) ==
  LET rows == timeindex_rows(latest_market_data, current_positions,
                             current_holdings)
  IN /\ all_positions' = append_per_market(all_positions, rows.positions, 1)
     /\ all_holdings' = Append(all_holdings, rows.holdings)
     /\ UNCHANGED ledgerVars

\* Variant: the market value is booked on the current cash.
update_timeindex_books_cash(event) ==
  LET rows == timeindex_rows(latest_market_data, current_positions,
                             current_holdings)
  IN /\ all_positions' = Append(all_positions, rows.positions)
     /\ all_holdings' = Append(all_holdings, rows.holdings)
     /\ current_holdings' = [current_holdings EXCEPT !.cash = rows.holdings.total]
     /\ UNCHANGED current_positions

update_timeindex(event) ==
  LET rows == timeindex_rows(latest_market_data, current_positions,
                             current_holdings)
  IN /\ all_positions' = Append(all_positions, rows.positions)
     /\ all_holdings' = Append(all_holdings, rows.holdings)
     /\ UNCHANGED ledgerVars

\* Variant: the quantity is booked on every market.
update_positions_from_fill_all_markets(cp, fill) ==
  LET fill_dir == IF fill.direction = "SELL" THEN -1
                  ELSE IF fill.direction = "BUY" THEN 1 ELSE 0
  IN [m \in DOMAIN cp |-> cp[m] + fill_dir * fill.quantity]

update_positions_from_fill(cp, fill) ==
  LET fill_dir == IF fill.direction = "SELL" THEN -1
                  ELSE IF fill.direction = "BUY" THEN 1 ELSE 0
  IN [cp EXCEPT ![fill.market] = @ + fill_dir * fill.quantity]

\* Variant: the commission is not taken from the cash.
update_holdings_from_fill_no_commission(ch, fill) ==
  LET fill_dir == IF fill.direction = "SELL" THEN -1
                  ELSE IF fill.direction = "BUY" THEN 1 ELSE 0
      cost == fill_dir * fill.price * fill.quantity
  IN [ch EXCEPT !.mkts[fill.market] = @ + cost,
                !.commission = @ + fill.commission,
                !.cash = @ - cost,
                !.total = @ - (cost + fill.commission)]

\* Variant: a fill that is neither a buy nor a sell returns early.
update_holdings_from_fill_skip_unknown(ch, fill) ==
  LET fill_dir == IF fill.direction = "SELL" THEN -1
                  ELSE IF fill.direction = "BUY" THEN 1 ELSE 0
      cost == fill_dir * fill.price * fill.quantity
  IN IF fill_dir = 0 THEN ch
     ELSE [ch EXCEPT !.mkts[fill.market] = @ + cost,
                     !.commission = @ + fill.commission,
                     !.cash = @ - (cost + fill.commission),
                     !.total = @ - (cost + fill.commission)]

update_holdings_from_fill(ch, fill) ==
  LET fill_dir == IF fill.direction = "SELL" THEN -1
                  ELSE IF fill.direction = "BUY" THEN 1 ELSE 0
      cost == fill_dir * fill.price * fill.quantity
  IN [ch EXCEPT !.mkts[fill.market] = @ + cost,
                !.commission = @ + fill.commission,
                !.cash = @ - (cost + fill.commission),
                !.total = @ - (cost + fill.commission)]

update_fill(event) ==
  IF event.type = "FILL"
  THEN /\ current_positions' = update_positions_from_fill(current_positions, event)
       /\ current_holdings' = update_holdings_from_fill(current_holdings, event)
  ELSE UNCHANGED ledgerVars

OrderEvent(market, direction, quantity, price) ==
  [type |-> "ORDER", market |-> market, direction |-> direction,
   quantity |-> quantity, price |-> price]

\* Variant: a flip order is sized to close the position.
generate_naive_order_close(cp, signal) ==
  LET market == signal.market
      price == signal.market_snapshot.mean
      mkt_quantity == (100 * signal.strength) \div 1000
      cur_quantity == cp[market]
  IN IF signal.signal_type = "LONG" /\ cur_quantity = 0
     THEN OrderEvent(market, "BUY", mkt_quantity, price)
     ELSE IF signal.signal_type = "SHORT" /\ cur_quantity = 0
     THEN OrderEvent(market, "SELL", mkt_quantity, price)
     ELSE IF signal.signal_type = "SHORT" /\ cur_quantity > 0
     THEN OrderEvent(market, "SELL", Abs(cur_quantity), price)
     ELSE IF signal.signal_type = "LONG" /\ cur_quantity < 0
     THEN OrderEvent(market, "BUY", Abs(cur_quantity), price)
     ELSE None

\* Variant: a flip is sized like an opening order.
generate_naive_order_unit_flip(cp, signal) ==
  LET market == signal.market
      price == signal.market_snapshot.mean
      mkt_quantity == (100 * signal.strength) \div 1000
      cur_quantity == cp[market]
  IN IF signal.signal_type = "LONG" /\ cur_quantity <= 0
     THEN OrderEvent(market, "BUY", mkt_quantity, price)
     ELSE IF signal.signal_type = "SHORT" /\ cur_quantity >= 0
     THEN OrderEvent(market, "SELL", mkt_quantity, price)
     ELSE None

\* Variant: the position is compared with the unit size instead of zero.
generate_naive_order_unit_threshold(cp, signal) ==
  LET market == signal.market
      price == signal.market_snapshot.mean
      mkt_quantity == (100 * signal.strength) \div 1000
      cur_quantity == cp[market]
  IN IF signal.signal_type = "LONG" /\ cur_quantity = 0
     THEN OrderEvent(market, "BUY", mkt_quantity, price)
     ELSE IF signal.signal_type = "SHORT" /\ cur_quantity = 0
     THEN OrderEvent(market, "SELL", mkt_quantity, price)
     ELSE IF signal.signal_type = "SHORT" /\ cur_quantity > mkt_quantity
     THEN OrderEvent(market, "SELL", 2 * Abs(cur_quantity), price)
     ELSE IF signal.signal_type = "LONG" /\ cur_quantity < -mkt_quantity
     THEN OrderEvent(market, "BUY", 2 * Abs(cur_quantity), price)
     ELSE None

generate_naive_order(cp, signal) ==
  LET market == signal.market
      strength == signal.strength
      price == signal.market_snapshot.mean
      mkt_quantity == (100 * strength) \div 1000
      cur_quantity == cp[market]
  IN IF signal.signal_type = "LONG" /\ cur_quantity = 0
     THEN OrderEvent(market, "BUY", mkt_quantity, price)
     ELSE IF signal.signal_type = "SHORT" /\ cur_quantity = 0
     THEN OrderEvent(market, "SELL", mkt_quantity, price)
     ELSE IF signal.signal_type = "SHORT" /\ cur_quantity > 0
     THEN OrderEvent(market, "SELL", 2 * Abs(cur_quantity), price)
     ELSE IF signal.signal_type = "LONG" /\ cur_quantity < 0
     THEN OrderEvent(market, "BUY", 2 * Abs(cur_quantity), price)
     ELSE None

update_signal(event) ==
  IF event.type = "SIGNAL"
  THEN LET order_event == generate_naive_order(current_positions, event)
       IN events' = Append(events, order_event)
  ELSE UNCHANGED events

\* ------------------------------------------------------------ environment
\* The events the collaborators hand to the portfolio.
FillEvents ==
  {[type |-> "FILL", market |-> m, direction |-> d,
    quantity |-> t[1], price |-> t[2], commission |-> t[3]] :
     m \in MarketSet, d \in DirectionSet, t \in FillTerms}

\* A strategy signals a market it has seen a bar of, and attaches that bar.
SignalEvents(lmd) ==
  {[type |-> "SIGNAL", market |-> m, signal_type |-> t, strength |-> s,
    market_snapshot |-> get_latest_market_data(lmd, m, 1)] :
     m \in {k \in MarketSet : lmd[k] # <<>>}, t \in SignalTypeSet, s \in StrengthSet}

\* The backtest loop takes the oldest event off the queue; a MarketEvent goes
\* to update_timeindex.
OnMarket ==
  /\ events # <<>>
  /\ Head(events).type = "MARKET"
  /\ update_timeindex(Head(events))
  /\ events' = Tail(events)
  /\ UNCHANGED <<dataVars, fills, signalLog, nAdvance>>

\* Orders (and the None that update_signal may have queued) leave the queue
\* towards the execution handler.
OnOther ==
  /\ events # <<>>
  /\ Head(events).type # "MARKET"
  /\ events' = Tail(events)
  /\ UNCHANGED <<dataVars, ledgerVars, historyVars, fills, signalLog, nAdvance>>

OnSignal ==
  /\ nSignals < MaxSignals
  /\ \E event \in SignalEvents(latest_market_data) \cup {[type |-> "MARKET"]} :
       /\ update_signal(event)
       /\ lastSignal' = [event |-> event,
                         position |-> IF event.type = "SIGNAL"
                                      THEN current_positions[event.market] ELSE 0,
                         queued |-> SubSeq(events', Len(events) + 1, Len(events'))]
  /\ nSignals' = nSignals + 1
  /\ UNCHANGED <<dataVars, ledgerVars, historyVars, fills, nAdvance>>

OnFill ==
  /\ BagCardinality(fills) < MaxFills
  /\ \E event \in FillEvents \cup {[type |-> "MARKET"]} :
       /\ update_fill(event)
       /\ fills' = fills (+) SetToBag({event})
  /\ UNCHANGED <<dataVars, historyVars, events, signalLog, nAdvance>>

IdleAggregator ==
  /\ trades = [t \in Ticks |-> [n |-> 0, rate |-> 1]]
  /\ page_end = NumTicks - 1
  /\ trades_df = <<>>
  /\ pc = "idle"
  /\ nPages = 0
  /\ fed = [h \in Hours |-> NoTrades]

InitLedger ==
  /\ \E n \in [MarketSet -> 1..MaxBars] :
       market_data = [m \in MarketSet |-> BarRows(m, n[m])]
  /\ market_snapshots = [m \in MarketSet |-> 0]
  /\ latest_market_data = [m \in MarketSet |-> <<>>]
  /\ continue_backtest = TRUE
  /\ events = <<>>
  /\ current_positions = [m \in MarketSet |-> 0]
  /\ current_holdings = construct_current_holdings
  /\ all_positions = construct_all_positions(market_data[markets[1]][1].name)
  /\ all_holdings = construct_all_holdings(market_data[markets[1]][1].name)
  /\ fills = EmptyBag
  /\ nSignals = 0
  /\ lastSignal = None
  /\ nAdvance = 0

\* The replay and the ledger, on the bars of a finished fetch.
Init == InitLedger /\ IdleAggregator

Next ==
  \/ update_market_data /\ UNCHANGED aggVars
  \/ OnMarket /\ UNCHANGED aggVars
  \/ OnOther /\ UNCHANGED aggVars
  \/ OnSignal /\ UNCHANGED aggVars
  \/ OnFill /\ UNCHANGED aggVars

Spec == Init /\ [][Next]_vars

\* The replay and the ledger without a strategy: no signal is ever raised.
NextReplay ==
  \/ update_market_data /\ UNCHANGED aggVars
  \/ OnMarket /\ UNCHANGED aggVars
  \/ OnFill /\ UNCHANGED aggVars

SpecReplay == Init /\ [][NextReplay]_vars

\* One call get_trades(currency_pair, start, end) on a feed holding any trades
\* in the window.
InitAgg ==
  /\ trades \in [Ticks -> TradeRuns]
  /\ page_end = NumTicks - 1
  /\ trades_df = <<>>
  /\ pc = "loop"
  /\ nPages = 0
  /\ fed = [h \in Hours |-> NoTrades]
  /\ InitLedger
  /\ \A m \in MarketSet : Len(market_data[m]) = 1

ledgerAllVars == <<dataVars, events, ledgerVars, historyVars, fills, signalLog,
                   nAdvance>>

NextAgg ==
  \/ get_trades_page /\ UNCHANGED ledgerAllVars
  \/ get_trades_break /\ UNCHANGED ledgerAllVars
  \/ get_trades_end /\ UNCHANGED ledgerAllVars

SpecAgg == InitAgg /\ [][NextAgg]_vars

\* ---------------------------------------------- a run with exact execution
\* The execution handler fills an order at its direction, quantity and price.
FillOf(order, commission) ==
  [type |-> "FILL", market |-> order.market, direction |-> order.direction,
   quantity |-> order.quantity, price |-> order.price, commission |-> commission]

CommissionSet == {t[3] : t \in FillTerms}

PendingOrderFor(m) ==
  \E i \in DOMAIN events : events[i].type = "ORDER" /\ events[i].market = m

\* A strategy signals a market that has no order waiting to be filled.
StrategySignal ==
  /\ nSignals < MaxFlipSignals
  /\ \E event \in SignalEvents(latest_market_data) :
       /\ ~PendingOrderFor(event.market)
       /\ update_signal(event)
       /\ lastSignal' = [event |-> event,
                         position |-> current_positions[event.market],
                         queued |-> SubSeq(events', Len(events) + 1, Len(events'))]
  /\ nSignals' = nSignals + 1
  /\ UNCHANGED <<dataVars, ledgerVars, historyVars, fills, nAdvance>>

\* The oldest event is an order: it is executed and its fill handed back.
ExecuteOrder ==
  /\ events # <<>>
  /\ Head(events).type = "ORDER"
  /\ \E c \in CommissionSet :
       /\ update_fill(FillOf(Head(events), c))
       /\ fills' = fills (+) SetToBag({FillOf(Head(events), c)})
  /\ events' = Tail(events)
  /\ UNCHANGED <<dataVars, historyVars, signalLog, nAdvance>>

\* The oldest event is the None update_signal queued: it is taken off.
DiscardNone ==
  /\ events # <<>>
  /\ Head(events) = None
  /\ events' = Tail(events)
  /\ UNCHANGED <<dataVars, ledgerVars, historyVars, fills, signalLog, nAdvance>>

\* The flat ledger after the first update_market_data and update_timeindex.
InitFlip ==
  /\ \E n \in [MarketSet -> 1..MaxBars] :
       market_data = [m \in MarketSet |-> BarRows(m, n[m])]
  /\ market_snapshots = [m \in MarketSet |-> 1]
  /\ latest_market_data = [m \in MarketSet |-> <<market_data[m][1]>>]
  /\ continue_backtest = TRUE
  /\ events = <<>>
  /\ current_positions = [m \in MarketSet |-> 0]
  /\ current_holdings = construct_current_holdings
  /\ all_positions =
       Append(construct_all_positions(market_data[markets[1]][1].name),
              timeindex_rows(latest_market_data, current_positions,
                             current_holdings).positions)
  /\ all_holdings =
       Append(construct_all_holdings(market_data[markets[1]][1].name),
              timeindex_rows(latest_market_data, current_positions,
                             current_holdings).holdings)
  /\ fills = EmptyBag
  /\ nSignals = 0
  /\ lastSignal = None
  /\ nAdvance = 1
  /\ IdleAggregator

NextFlip ==
  \/ StrategySignal /\ UNCHANGED aggVars
  \/ ExecuteOrder /\ UNCHANGED aggVars
  \/ DiscardNone /\ UNCHANGED aggVars

SpecFlip == InitFlip /\ [][NextFlip]_vars

\* ======================================================== ledger claims
\* The Fill events among the events handed to update_fill, with multiplicity.
FillsApplied == {e \in BagToSet(fills) : e.type = "FILL"}

Dir(e) == CASE e.direction = "BUY" -> 1 [] e.direction = "SELL" -> -1 [] OTHER -> 0

PendingMarketEvents == Cardinality({i \in DOMAIN events : events[i].type = "MARKET"})

\* C1: the two histories have the same length, and once every MarketEvent put
\* by the N calls of update_market_data has been delivered to update_timeindex
\* that length is N + 1 (one row per delivered event, whatever markets ticked).
C1_RowCount ==
  /\ Len(all_positions) = Len(all_holdings)
  /\ Len(all_holdings) = (nAdvance - PendingMarketEvents) + 1

\* Two steps delivered, the second one with an exhausted market.
C1_Witness ==
  /\ nAdvance = 2
  /\ PendingMarketEvents = 0
  /\ Len(all_holdings) = 3
  /\ ~continue_backtest
  /\ \E m \in MarketSet : Len(latest_market_data[m]) = 2

\* C2: the cash is the initial capital less, for every fill applied, its signed
\* cost and its commission.
C2_CashConservation ==
  current_holdings.cash =
    initial_capital
      - SumOver(FillsApplied,
                [e \in FillsApplied |->
                   CopiesIn(e, fills)
                     * (Dir(e) * e.price * e.quantity + e.commission)])

\* Two fills with a commission, a buy and a sell among them, with a signal
\* handled and a market update delivered in between.
C2_Witness ==
  /\ BagCardinality(fills) = 2
  /\ \E e \in FillsApplied : e.direction = "BUY" /\ e.commission > 0
  /\ \E e \in FillsApplied : e.direction = "SELL"
  /\ nSignals > 0
  /\ Len(all_holdings) > 1
  /\ current_holdings.cash # initial_capital

Sign(n) == IF n > 0 THEN 1 ELSE IF n < 0 THEN -1 ELSE 0

\* What the caller sees of an order: its direction and quantity, or none.
Outcome(order) ==
  IF order = None THEN <<"none">> ELSE <<order.direction, order.quantity>>

SignalHandled == lastSignal # None /\ lastSignal.event.type = "SIGNAL"

\* The signal handled last, re-addressed to market m with m's latest bar.
SameSignalFor(m) ==
  [lastSignal.event EXCEPT
     !.market = m,
     !.market_snapshot =
        IF latest_market_data[m] # <<>>
        THEN get_latest_market_data(latest_market_data, m, 1) ELSE @]

\* C3 as stated: the signal handled last, at a position of some sign, and the
\* same signal type and strength in the current ledger for a market whose
\* position has that sign, give the same direction and quantity, or none both.
C3_SignDeterminism ==
  SignalHandled =>
    \A m \in MarketSet :
      Sign(current_positions[m]) = Sign(lastSignal.position)
        => Outcome(generate_naive_order(current_positions, SameSignalFor(m)))
             = Outcome(lastSignal.queued[1])

\* C3 amended: the direction (or none) is the same; the quantity is the same
\* when the two positions have the same magnitude.
C3_SignDeterminesDirection ==
  SignalHandled =>
    \A m \in MarketSet :
      Sign(current_positions[m]) = Sign(lastSignal.position)
        => LET a == Outcome(lastSignal.queued[1])
               b == Outcome(generate_naive_order(current_positions,
                                                 SameSignalFor(m)))
           IN /\ a[1] = b[1]
              /\ Abs(current_positions[m]) = Abs(lastSignal.position) => a = b

\* A flip order was produced at one long position and the market is now long
\* with another magnitude.
C3_Witness ==
  /\ SignalHandled
  /\ lastSignal.event.signal_type = "SHORT"
  /\ lastSignal.position > 0
  /\ lastSignal.queued[1] # None
  /\ current_positions[lastSignal.event.market] > lastSignal.position

\* The transition table of the order sizing.
TableOutcome(p, signal_type, strength) ==
  LET unit == (100 * strength) \div 1000
  IN CASE p = 0 /\ signal_type = "LONG" -> <<"BUY", unit>>
       [] p = 0 /\ signal_type = "SHORT" -> <<"SELL", unit>>
       [] p > 0 /\ signal_type = "SHORT" -> <<"SELL", 2 * Abs(p)>>
       [] p < 0 /\ signal_type = "LONG" -> <<"BUY", 2 * Abs(p)>>
       [] OTHER -> <<"none">>

\* C4: what update_signal obtained from generate_naive_order for the signal
\* handled last is the table's entry for the position it was handled at.
C4_TransitionTable ==
  SignalHandled =>
    Outcome(lastSignal.queued[1]) =
      TableOutcome(lastSignal.position, lastSignal.event.signal_type,
                   lastSignal.event.strength)

\* A flip of a short position: BUY of twice its size.
C4_Witness ==
  /\ SignalHandled
  /\ lastSignal.position < 0
  /\ lastSignal.event.signal_type = "LONG"
  /\ Outcome(lastSignal.queued[1]) = <<"BUY", 2 * Abs(lastSignal.position)>>

NoOrderCase(position, signal_type) ==
  \/ signal_type = "LONG" /\ position > 0
  \/ signal_type = "SHORT" /\ position < 0
  \/ signal_type = "EXIT"

\* C5: handling a LONG signal while long, a SHORT signal while short or an EXIT
\* signal leaves the event queue, the positions and the cash as they were.
C5_NoOrderLeavesQueue ==
  [][(/\ nSignals' = nSignals + 1
      /\ lastSignal'.event.type = "SIGNAL"
      /\ NoOrderCase(lastSignal'.position, lastSignal'.event.signal_type))
     => /\ events' = events
        /\ current_positions' = current_positions
        /\ current_holdings'.cash = current_holdings.cash]_vars

\* C6: the position of every market is the sum of the signed quantities of the
\* fills of that market.
C6_PositionAccounting ==
  \A m \in MarketSet :
    current_positions[m] =
      SumOver({e \in FillsApplied : e.market = m},
              [e \in FillsApplied |-> CopiesIn(e, fills) * Dir(e) * e.quantity])

\* One market bought, the other sold.
C6_Witness ==
  /\ \E e \in FillsApplied : e.market = markets[1] /\ e.direction = "BUY"
  /\ \E e \in FillsApplied : e.market = markets[2] /\ e.direction = "SELL"
  /\ current_positions[markets[1]] > 0
  /\ current_positions[markets[2]] < 0

\* The step hands the Fill event e to update_fill.
FillStep(e) == fills' = fills (+) SetToBag({e})

UnrecognizedFills == {e \in FillEvents : e.direction \notin {"BUY", "SELL"}}

\* C7 as stated: a fill that is neither a buy nor a sell changes nothing.
C7_UnrecognizedFillNoOp ==
  [][\A e \in UnrecognizedFills :
       FillStep(e) => UNCHANGED <<current_positions, current_holdings>>]_vars

\* C7 amended: such a fill leaves the positions alone, and its commission is
\* still charged: cash and total go down by it, commission paid goes up by it.
C7_UnrecognizedFillChargesCommission ==
  [][\A e \in UnrecognizedFills :
       FillStep(e) =>
         /\ current_positions' = current_positions
         /\ current_holdings' =
              [current_holdings EXCEPT !.cash = @ - e.commission,
                                       !.total = @ - e.commission,
                                       !.commission = @ + e.commission]]_vars

\* Such a fill, with a commission, has been applied and nothing else.
C7_Witness ==
  /\ BagCardinality(fills) = 1
  /\ \E e \in UnrecognizedFills : e.commission > 0 /\ BagIn(e, fills)
  /\ current_holdings.cash < initial_capital

\* C8: a step of update_timeindex (a row is appended) or of update_signal leaves
\* the current positions and the current cash as they were.
C8_OnlyFillsMutate ==
  [][(Len(all_holdings') # Len(all_holdings) \/ nSignals' # nSignals)
     => /\ current_positions' = current_positions
        /\ current_holdings'.cash = current_holdings.cash]_vars

\* Both operations have run on a ledger that holds a position.
C8_Witness ==
  /\ nSignals > 0
  /\ Len(all_holdings) > 1
  /\ \E m \in MarketSet :
       /\ current_positions[m] # 0
       /\ m \in DOMAIN all_positions[Len(all_positions)].pos
       /\ all_positions[Len(all_positions)].pos[m] # 0
  /\ current_holdings.cash # initial_capital

\* ==================================================== aggregator claims
TradesInWindow == SumOver(Ticks, [t \in Ticks |-> trades[t].n])

\* C9: the counts of the bars get_trades returns add up to the number of
\* trades in the window.
C9_CountConservation ==
  pc = "done" => TotalCount(trades_df) = TradesInWindow

FedHours == {h \in Hours : Size(fed[h]) > 0}

Stats(row) ==
  <<row.count, row.mean, row.min, row.p25, row.p50, row.p75, row.max>>

\* C10 as stated: two pages with all their trades in one hour give, merged, the
\* bar of the two pages' rows aggregated as one page, in every statistic.
C10_MergeAssociativity ==
  (nPages = 2 /\ Cardinality(FedHours) = 1)
    => \A i \in DOMAIN trades_df :
         Stats(trades_df[i])
           = Stats(describe(trades_df[i].hour, fed[trades_df[i].hour]))

\* C10 amended: the merged bar has the count and the mean of the pages' rows
\* aggregated as one page (checked for every bar and any number of pages).
C10_MergeCountAndMean ==
  \A i \in DOMAIN trades_df :
    LET whole == describe(trades_df[i].hour, fed[trades_df[i].hour])
    IN /\ trades_df[i].count = whole.count
       /\ trades_df[i].mean = whole.mean

\* Two pages of one hour were merged, rows of both rates among them, and the
\* merged maximum is not the maximum of the rows.
C10_Witness ==
  /\ pc = "done"
  /\ nPages = 2
  /\ Cardinality(FedHours) = 1
  /\ Len(trades_df) = 1
  /\ trades_df[1].count > PageSize
  /\ \A r \in RateSet : fed[trades_df[1].hour][r] > 0
  /\ trades_df[1].max # describe(trades_df[1].hour, fed[trades_df[1].hour]).max

\* The rows of the page the next pass of the loop would get, by hour.
NextPageStats ==
  hourly_stats(trades, returnTradeHistory(trades, unix_time(0), unix_time(page_end)))

\* The pass fetches a page whose newest hour is the oldest accumulated hour.
BoundaryMergeStep ==
  /\ pc = "loop"
  /\ nPages' = nPages + 1
  /\ Len(trades_df) # 0
  /\ MinOf(IndexOf(trades_df)) = MaxOf(DOMAIN NextPageStats)

\* merged * (count_a + count_b) = stat_a * count_a + stat_b * count_b
WeightedOf(merged, a, count_a, b, count_b) ==
  RatTimes(merged, count_a + count_b)
    = RatPlus(RatTimes(a, count_a), RatTimes(b, count_b))

MergedFrom(row, a, b) ==
  /\ row.hour = a.hour
  /\ row.count = a.count + b.count
  /\ WeightedOf(row.mean, a.mean, a.count, b.mean, b.count)
  /\ WeightedOf(row.min, a.min, a.count, b.min, b.count)
  /\ WeightedOf(row.p25, a.p25, a.count, b.p25, b.count)
  /\ WeightedOf(row.p50, a.p50, a.count, b.p50, b.count)
  /\ WeightedOf(row.p75, a.p75, a.count, b.p75, b.count)
  /\ WeightedOf(row.max, a.max, a.count, b.max, b.count)

\* A row of count c whose statistics all equal v.
FlatRow(h, c, v) ==
  [hour |-> h, count |-> c, mean |-> Rat(v, 1), min |-> Rat(v, 1),
   p25 |-> Rat(v, 1), p50 |-> Rat(v, 1), p75 |-> Rat(v, 1), max |-> Rat(v, 1)]

\* C11: a pass whose page's newest hour is the oldest accumulated hour replaces
\* that accumulated row by one with the sum of the two counts and, for every
\* other statistic, the count-weighted average of the two rows; counts 60 and
\* 40 with means 100 and 200 give count 100 and mean 140.
C11_BoundaryMergeRule ==
  [][/\ BoundaryMergeStep =>
          \A i \in DOMAIN trades_df :
            trades_df[i].hour = MinOf(IndexOf(trades_df))
              => MergedFrom(trades_df'[i], trades_df[i],
                            NextPageStats[trades_df[i].hour])
     /\ merge_rows(FlatRow(0, 60, 100), FlatRow(0, 40, 200)).count = 100
     /\ merge_rows(FlatRow(0, 60, 100), FlatRow(0, 40, 200)).mean = Rat(140, 1)]_vars

\* A second page was merged into the row of the first: more rows than one page
\* holds, at both rates, with a mean that is not a whole rate.
C11_Witness ==
  /\ nPages = 2
  /\ \E i \in DOMAIN trades_df :
       /\ trades_df[i].count > PageSize
       /\ trades_df[i].mean.d # 1
       /\ trades_df[i].min # trades_df[i].max

C16_EmptyWindowGraceful ==
  TradesInWindow = 0 => pc \in {"loop", "done"}

\* C18: the loop terminates because every pass narrows the window from the top:
\* a pass that fetched a page and leaves the loop condition true has moved
\* page_end strictly down, also when a full page shares one timestamp.
C18_LoopNarrowsWindow ==
  [][(nPages' = nPages + 1 /\ need_to_fetch(trades_df'))
       => page_end' < page_end]_vars

\* ======================================================== replay claims
\* C13: for every market and every N from 1 up, get_latest_market_data gives
\* the bar revealed last, and None while no bar of the market is revealed.
C13_LatestIsMostRecent ==
  \A m \in MarketSet, N \in 1..MaxLookback :
    get_latest_market_data(latest_market_data, m, N) =
      IF latest_market_data[m] = <<>> THEN None
      ELSE latest_market_data[m][Len(latest_market_data[m])]

\* The number of rows of the market with the fewest rows.
MinBars == MinOf({Len(market_data[m]) : m \in MarketSet})

\* C14: continue_backtest is true up to and including call number MinBars of
\* update_market_data and false from call MinBars + 1 on, the first call that
\* finds an iterator exhausted; no step sets it back to true.
C14_ContinueFlag ==
  /\ [](continue_backtest <=> nAdvance <= MinBars)
  /\ [][continue_backtest' => continue_backtest]_vars

\* The flag fell in the call after the shorter market's last row, the longer
\* market went on, and a fill was handled as well.
C14_Witness ==
  /\ ~continue_backtest
  /\ nAdvance = MinBars + 1
  /\ \E m \in MarketSet : Len(latest_market_data[m]) > MinBars
  /\ BagCardinality(fills) > 0
  /\ events = <<>>

\* C15: a call of update_market_data appends to every market that has a row
\* left exactly its next row, leaves the other markets' lists alone, and puts
\* exactly one MarketEvent at the end of the queue.
C15_ExhaustionDoesNotAbort ==
  [][nAdvance' = nAdvance + 1 =>
       /\ \A m \in MarketSet :
            latest_market_data'[m] =
              IF market_snapshots[m] < Len(market_data[m])
              THEN Append(latest_market_data[m],
                          market_data[m][market_snapshots[m] + 1])
              ELSE latest_market_data[m]
       /\ events' = Append(events, [type |-> "MARKET"])]_vars

\* The second call found the first market exhausted and still revealed the
\* second market's second row; both MarketEvents are on the queue.
C15_Witness ==
  /\ nAdvance = 2
  /\ Len(market_data[markets[1]]) = 1
  /\ Len(latest_market_data[markets[1]]) = 1
  /\ Len(latest_market_data[markets[2]]) = 2
  /\ PendingMarketEvents = 2

IsPrefix(a, b) == Len(a) <= Len(b) /\ a = SubSeq(b, 1, Len(a))

\* C19: every market's revealed list is the first min(calls, rows) rows of the
\* market's rows, in their order, and a step only ever appends to it.
C19_ReplayFidelity ==
  /\ [](\A m \in MarketSet :
          /\ IsPrefix(latest_market_data[m], market_data[m])
          /\ Len(latest_market_data[m]) =
               IF nAdvance < Len(market_data[m]) THEN nAdvance
               ELSE Len(market_data[m]))
  /\ [][\A m \in MarketSet :
          IsPrefix(latest_market_data[m], latest_market_data'[m])]_vars

\* Two calls: the first market's two different rows are revealed in order, the
\* second market's single row once.
C19_Witness ==
  /\ nAdvance = 2
  /\ Len(latest_market_data[markets[1]]) = 2
  /\ latest_market_data[markets[1]][1] # latest_market_data[markets[1]][2]
  /\ Len(market_data[markets[2]]) = 1
  /\ Len(latest_market_data[markets[2]]) = 1

\* ================================================== mark-to-market claims
\* The step delivers a MarketEvent to update_timeindex.
TimeindexStep == Len(all_holdings') = Len(all_holdings) + 1

\* The value of the positions cp in the markets ms at their latest revealed bars.
MarkedValue(ms, cp, lmd) ==
  SumOver(ms, [m \in ms |-> cp[m] * lmd[m][Len(lmd[m])].mean])

\* The markets whose iterator yielded a row in the latest update_market_data.
TickedMarkets == {m \in MarketSet : nAdvance <= Len(market_data[m])}

RevealedMarkets == {m \in MarketSet : latest_market_data[m] # <<>>}

\* C17 as stated: when update_timeindex handles the MarketEvent of the latest
\* update_market_data, the appended total is the cash plus the value of the
\* positions in the markets that revealed a bar in that call only.
C17_FreshBarsOnly ==
  [][(TimeindexStep /\ PendingMarketEvents = 1) =>
       all_holdings'[Len(all_holdings')].total =
         current_holdings.cash
           + MarkedValue(TickedMarkets, current_positions, latest_market_data)]_vars

\* C17 amended: the appended total is the cash plus the value of the positions
\* in every market with a revealed bar, at its latest revealed bar, whether
\* that bar was revealed in this step or earlier.
C17_LatestRevealedBars ==
  [][TimeindexStep =>
       all_holdings'[Len(all_holdings')].total =
         current_holdings.cash
           + MarkedValue(RevealedMarkets, current_positions,
                         latest_market_data)]_vars

\* The second MarketEvent was handled with a position in a market whose only
\* row was revealed in the first call: the row's total counts that position.
C17_Witness ==
  /\ nAdvance = 2
  /\ events = <<>>
  /\ Len(all_holdings) = 3
  /\ \E m \in MarketSet :
       /\ Len(market_data[m]) = 1
       /\ m \in DOMAIN all_positions[3].pos
       /\ all_positions[3].pos[m] # 0
       /\ all_holdings[3].total =
            all_holdings[3].cash
              + MarkedValue(MarketSet, all_positions[3].pos, latest_market_data)
       /\ all_holdings[3].total #
            all_holdings[3].cash
              + MarkedValue(MarketSet \ {m}, all_positions[3].pos,
                            latest_market_data)

\* ============================================================ flip claim
\* C20: when every order is filled as requested before the market's next
\* signal, a step leaves a market's position at p or takes it to -p once the
\* market has left flat, and the fill of an order for a market that is not
\* flat takes the position from p to exactly -p: the magnitude stays that of
\* the opening order and the market never returns to flat.
C20_FlipPreservesMagnitude ==
  [][/\ \A m \in MarketSet :
          current_positions[m] # 0
            => current_positions'[m] \in {current_positions[m], -current_positions[m]}
     /\ \A e \in BagToSet(fills') :
          (FillStep(e) /\ current_positions[e.market] # 0)
            => current_positions'[e.market] = -current_positions[e.market]]_vars

\* A market was opened long, flipped short and flipped back long, at the
\* opening order's size each time.
C20_Witness ==
  /\ nSignals = 3
  /\ BagCardinality(fills) = 3
  /\ \E m \in MarketSet, e \in BagToSet(fills) :
       /\ \A f \in BagToSet(fills) : f.market = m
       /\ e.direction = "SELL"
       /\ e.quantity = 2 * current_positions[m]
       /\ current_positions[m] > 0
====
